---- MODULE Spec2Model ----
(***************************************************************************)
(* Model of the Lark mail -> Lark Base automation: the EmailParser text    *)
(* extractors and normalizers, the two validators, and the HTTP handlers   *)
(* that feed a parse result to LarkBaseService.createRecord.               *)
(*                                                                         *)
(* Text is a sequence of characters; a character is a one-element string.  *)
(* Printable ASCII characters stand for themselves, "nl" is the line feed, *)
(* and every other character is written "uXXXX" after its code point       *)
(* (u5E74 = the year sign, u25BC = the survey marker, uFF1A = the full     *)
(* width colon, u3000 = the ideographic space).                            *)
(***************************************************************************)
EXTENDS Integers, Sequences, FiniteSets, TLC

VARIABLES
    call,         \* the pure-function call under check: [fn, args, result]
    nodeEnv,      \* process.env.NODE_ENV
    handler,      \* per request: the route handler's position and locals
    accessToken,  \* LarkBaseService.accessToken
    tokenExpiry,  \* LarkBaseService.tokenExpiry
    issued,       \* number of tenant access tokens Lark has issued
    clock         \* Date.now(), in milliseconds

server == <<nodeEnv, handler, accessToken, tokenExpiry, issued, clock>>
vars == <<call, server>>

(***************************************************************************)
(* Characters and character classes of the JavaScript regular expressions. *)
(***************************************************************************)
NL == "nl"
Marker == "u25BC"
FullColon == "uFF1A"
Digits == {"0", "1", "2", "3", "4", "5", "6", "7", "8", "9"}
\* \s : white space and line terminators
SpaceChars == {" ", "nl", "cr", "tab", "u3000", "u00A0"}
\* the characters '.' does not match
LineTerminators == {"nl", "cr", "u2028", "u2029"}

InClass(c, cls, lit) ==
    CASE cls = "lit" -> c = lit
      [] cls = "any" -> TRUE
      [] cls = "dot" -> c \notin LineTerminators
      [] cls = "space" -> c \in SpaceChars
      [] cls = "digit" -> c \in Digits
      [] cls = "colon" -> c \in {":", FullColon}
      [] cls = "notSpaceAt" -> c \notin SpaceChars \cup {"@"}
      [] OTHER -> FALSE

Min(S) == CHOOSE x \in S : \A y \in S : x <= y
Max(S) == CHOOSE x \in S : \A y \in S : x >= y

\* the element of a set of one element: Only({e : x \in {v}}) is e with x
\* standing for the value of v, as a local const does
Only(S) == CHOOSE x \in S : TRUE
\* of pairs <<position, match>>, the one at the least / greatest position
First(S) == CHOOSE r \in S : \A q \in S : r[1] <= q[1]
Last(S) == CHOOSE r \in S : \A q \in S : r[1] >= q[1]

(***************************************************************************)
(* Pattern nodes.  A pattern is a sequence of nodes, all of one shape.     *)
(***************************************************************************)
Node(t, cls, lit, min, max, inf, lazy, grp, alts) ==
    [t |-> t, cls |-> cls, lit |-> lit, min |-> min, max |-> max,
     inf |-> inf, lazy |-> lazy, grp |-> grp, alts |-> alts]
\* one literal character
Ch(c) == Node("rep", "lit", c, 1, 1, FALSE, FALSE, 0, <<>>)
\* one character of a class
One(cls) == Node("rep", cls, "", 1, 1, FALSE, FALSE, 0, <<>>)
\* cls{min,} greedy, cls{min,}? lazy, cls{min,max} greedy
Greedy(cls, min) == Node("rep", cls, "", min, 0, TRUE, FALSE, 0, <<>>)
Lazy(cls, min) == Node("rep", cls, "", min, 0, TRUE, TRUE, 0, <<>>)
Between(cls, min, max) == Node("rep", cls, "", min, max, FALSE, FALSE, 0, <<>>)
\* c{min,} and c? for a literal character
GreedyCh(c, min) == Node("rep", "lit", c, min, 0, TRUE, FALSE, 0, <<>>)
OptCh(c) == Node("rep", "lit", c, 0, 1, FALSE, FALSE, 0, <<>>)
\* ( and ) of capture group g
Open(g) == Node("open", "", "", 0, 0, FALSE, FALSE, g, <<>>)
Close(g) == Node("close", "", "", 0, 0, FALSE, FALSE, g, <<>>)
\* (?=a1|a2|...)
Look(alts) == Node("look", "", "", 0, 0, FALSE, FALSE, 0, alts)
\* ^ and $ (no m flag: start and end of input)
Bol == Node("start", "", "", 0, 0, FALSE, FALSE, 0, <<>>)
Eol == Node("end", "", "", 0, 0, FALSE, FALSE, 0, <<>>)

\* A string interpolated into a pattern source: every character is a
\* pattern character.  '.' is the any-character-but-line-terminator
\* operator, '?' and '*' quantify the character before them (lazily with a
\* '?' after them), '(' opens a group; every other character of the
\* model's alphabets is a literal.
Quantifiers == {"?", "*"}
Atom(c, min, max, inf, lazy) ==
    Node("rep", IF c = "." THEN "dot" ELSE "lit", IF c = "." THEN "" ELSE c,
         min, max, inf, lazy, 0, <<>>)
RECURSIVE Source(_)
Source(s) ==
    IF s = <<>> THEN <<>>
    ELSE IF Len(s) >= 2 /\ s[2] \in Quantifiers
    THEN LET lazy == Len(s) >= 3 /\ s[3] = "?"
         IN  <<Atom(s[1], 0, IF s[2] = "?" THEN 1 ELSE 0, s[2] = "*", lazy)>>
               \o Source(SubSeq(s, IF lazy THEN 4 ELSE 3, Len(s)))
    ELSE <<Atom(s[1], 1, 1, FALSE, FALSE)>> \o Source(Tail(s))
\* new RegExp(source) throws a SyntaxError: a quantifier with nothing to
\* repeat, or a group that is not closed (the model's alphabets hold no ')')
RECURSIVE SyntaxError(_)
SyntaxError(s) ==
    IF s = <<>> THEN FALSE
    ELSE IF s[1] \in Quantifiers \/ s[1] = "(" THEN TRUE
    ELSE IF Len(s) >= 2 /\ s[2] \in Quantifiers
    THEN SyntaxError(SubSeq(s, IF Len(s) >= 3 /\ s[3] = "?" THEN 4 ELSE 3, Len(s)))
    ELSE SyntaxError(Tail(s))
\* An escaped literal string inside a pattern literal.
Lit(s) == [i \in 1..Len(s) |-> Ch(s[i])]

NGroups == 5
NoCaps == [g \in 1..NGroups |-> [s |-> 0, e |-> 0]]
NoMatch == [ok |-> FALSE, from |-> 0, to |-> 0, caps |-> NoCaps]

\* Number of consecutive characters of node n's class from position pos,
\* cut at the node's max.
RunLen(text, pos, n) ==
    LET last == IF n.inf \/ pos + n.max > Len(text) + 1 THEN Len(text) + 1 ELSE pos + n.max
    IN  Min({j \in pos..last : j = last \/ ~InClass(text[j], n.cls, n.lit)}) - pos

(***************************************************************************)
(* Backtracking match of pat[k..] at position pos, in the priority order   *)
(* of the ECMAScript matcher: a greedy repetition tries the longest run    *)
(* first, a lazy one the shortest, and each keeps the first length for     *)
(* which the rest of the pattern matches.                                  *)
(***************************************************************************)
RECURSIVE MatchAt(_, _, _, _, _)
MatchAt(pat, k, text, pos, caps) ==
    IF k > Len(pat) THEN [ok |-> TRUE, from |-> 0, to |-> pos, caps |-> caps]
    ELSE LET n == pat[k] IN
      CASE n.t = "rep" ->
             \* rest: the rest of the pattern matched after each length the
             \* quantifier allows, where it matches
             Only({IF rest = {} THEN NoMatch
                   ELSE IF n.lazy THEN First(rest)[2] ELSE Last(rest)[2] :
                   rest \in {{r \in {<<e, MatchAt(pat, k + 1, text, e, caps)>> :
                                       e \in (pos + n.min)..(pos + RunLen(text, pos, n))} :
                               r[2].ok}}})
        [] n.t = "open" ->
             MatchAt(pat, k + 1, text, pos, [caps EXCEPT ![n.grp] = [s |-> pos, e |-> pos]])
        [] n.t = "close" ->
             MatchAt(pat, k + 1, text, pos, [caps EXCEPT ![n.grp].e = pos])
        [] n.t = "look" ->
             IF \E a \in 1..Len(n.alts) : MatchAt(n.alts[a], 1, text, pos, caps).ok
             THEN MatchAt(pat, k + 1, text, pos, caps) ELSE NoMatch
        [] n.t = "start" ->
             IF pos = 1 THEN MatchAt(pat, k + 1, text, pos, caps) ELSE NoMatch
        [] n.t = "end" ->
             IF pos = Len(text) + 1 THEN MatchAt(pat, k + 1, text, pos, caps) ELSE NoMatch
        [] OTHER -> NoMatch

\* RegExp.prototype.exec / String.prototype.match on a fresh pattern object
\* (lastIndex 0): the match at the leftmost start position that has one.
\* from..to-1 is the matched text, caps[g] = s..e-1 the text of group g.
Exec(pat, text) ==
    Only({IF found = {} THEN NoMatch
          ELSE [First(found)[2] EXCEPT !.from = First(found)[1]] :
          found \in {{r \in {<<i, MatchAt(pat, 1, text, i, NoCaps)>> : i \in 1..(Len(text) + 1)} :
                       r[2].ok}}})

\* A RegExp object with the 'g' flag: its pattern and its lastIndex (an
\* offset, 0 for the first character).  new RegExp(...) gives lastIndex 0;
\* objects are the RegExp objects earlier calls created, which the
\* constructor does not look at.
NewRegExp_Cached(pat, objects) ==
    IF \E r \in objects : r.pat = pat THEN CHOOSE r \in objects : r.pat = pat
    ELSE [pat |-> pat, lastIndex |-> 0]
NewRegExp(pat, objects) == [pat |-> pat, lastIndex |-> 0]
\* regex.exec(text): the leftmost match that starts at lastIndex or later;
\* lastIndex is left at the end of the match, at 0 when there is none
RegExpExec(regex, text) ==
    Only({[match |-> match,
           regex |-> [regex EXCEPT !.lastIndex = IF match.ok THEN match.to - 1 ELSE 0]] :
          match \in {IF regex.lastIndex > Len(text) THEN NoMatch
                     ELSE Only({IF found = {} THEN NoMatch
                                ELSE [First(found)[2] EXCEPT !.from = First(found)[1]] :
                                found \in {{r \in {<<i, MatchAt(pat, 1, text, i, NoCaps)>> :
                                                     i \in (regex.lastIndex + 1)..(Len(text) + 1),
                                                     pat \in {regex.pat}} :
                                             r[2].ok}}})}})

Matched(m, text) == SubSeq(text, m.from, m.to - 1)
Group(m, g, text) == SubSeq(text, m.caps[g].s, m.caps[g].e - 1)

\* String.prototype.trim
Trim(s) ==
    LET keep == {i \in 1..Len(s) : s[i] \notin SpaceChars}
    IN  IF keep = {} THEN <<>> ELSE SubSeq(s, Min(keep), Max(keep))

(***************************************************************************)
(* EmailParser extractors.                                                 *)
(***************************************************************************)
\* the 8 of ={8,}
BannerMin == 8

\* the section pattern with a greedy [\s\S]* in place of the lazy one
SectionRegex_Greedy(sectionName) ==
    Source(sectionName)
      \o <<Greedy("any", 0), Look(<< <<GreedyCh("=", BannerMin)>>, <<Eol>> >>)>>

\* new RegExp(`${sectionName}[\\s\\S]*?(?=={8,}|$)`, 'g')
SectionRegex(sectionName) ==
    Source(sectionName)
      \o <<Lazy("any", 0), Look(<< <<GreedyCh("=", BannerMin)>>, <<Eol>> >>)>>

extractSection(content, sectionName) ==
    Only({IF match.ok THEN Matched(match, content) ELSE <<>> :
          match \in {Exec(SectionRegex(sectionName), content)}})

\* new RegExp(`${fieldName}\\s*[:\uFF1A]\\s*(.+?)(?=\\n|$)`, 'g')
FieldRegex(fieldName) ==
    Source(fieldName)
      \o <<Greedy("space", 0), One("colon"), Greedy("space", 0),
           Open(1), Lazy("dot", 1), Close(1),
           Look(<< <<Ch(NL)>>, <<Eol>> >>)>>

extractField(section, fieldName) ==
    Only({IF match.ok THEN Trim(Group(match, 1, section)) ELSE <<>> :
          match \in {Exec(FieldRegex(fieldName), section)}})

\* new RegExp(`\u25BC${question}[\\s\\S]*?\u25BC\\s*(.+?)(?=\u25BC|$)`, 'g')
SurveyRegex(question) ==
    <<Ch(Marker)>> \o Source(question)
      \o <<Lazy("any", 0), Ch(Marker), Greedy("space", 0),
           Open(1), Lazy("dot", 1), Close(1),
           Look(<< <<Ch(Marker)>>, <<Eol>> >>)>>

extractSurveyAnswer(section, question) ==
    Only({IF match.ok THEN Trim(Group(match, 1, section)) ELSE <<>> :
          match \in {Exec(SurveyRegex(question), section)}})

(***************************************************************************)
(* The literal section names, labels and questions of the call sites.      *)
(***************************************************************************)
SEC_EVENT == <<"u30A4", "u30D9", "u30F3", "u30C8", "u60C5", "u5831">>
SEC_RESERVATION == <<"u3054", "u4E88", "u7D04", "u60C5", "u5831">>
SEC_CUSTOMER == <<"u304A", "u5BA2", "u69D8", "u60C5", "u5831">>
SEC_SURVEY == <<"u30A2", "u30F3", "u30B1", "u30FC", "u30C8">>
LBL_EVENT_NAME == <<"u30A4", "u30D9", "u30F3", "u30C8", "u540D">>
LBL_EVENT_DATE == <<"u958B", "u50AC", "u65E5">>
LBL_TIME == <<"u6642", "u9593">>
LBL_VENUE == <<"u4F1A", "u5834">>
LBL_URL == <<"U", "R", "L">>
LBL_DESIRED_DATE == <<"u3054", "u5E0C", "u671B", "u65E5">>
LBL_DESIRED_TIME == <<"u3054", "u5E0C", "u671B", "u6642", "u9593">>
LBL_NAME == <<"u304A", "u540D", "u524D">>
LBL_FURIGANA == <<"u30D5", "u30EA", "u30AC", "u30CA">>
LBL_EMAIL == <<"u30E1", "u30FC", "u30EB", "u30A2", "u30C9", "u30EC", "u30B9">>
LBL_PHONE == <<"u96FB", "u8A71", "u756A", "u53F7">>
LBL_AGE == <<"u5E74", "u9F62">>
LBL_RENT == <<"u6BCE", "u6708", "u306E", "u5BB6", "u8CC3">>
LBL_PAYMENT == <<"u6708", "u3005", "u306E", "u8FD4", "u6E08", "u984D">>
LBL_POSTAL == <<"u90F5", "u4FBF", "u756A", "u53F7">>
LBL_ADDRESS == <<"u3054", "u4F4F", "u6240">>
LBL_COMMENTS == <<"u3054", "u610F", "u898B", "u30FB", "u3054", "u8CEA", "u554F", "u7B49">>
LBL_LEAD_SOURCE == <<"u3054", "u4E88", "u7D04", "u306E", "u304D", "u3063", "u304B", "u3051">>
Q_HOUSING ==
    <<"u65B0", "u3057", "u3044", "u304A", "u4F4F", "u307E", "u3044", "u306E", "u3054",
      "u5E0C", "u671B", "u3092", "u6559", "u3048", "u3066", "u304F", "u3060", "u3055", "u3044">>
Q_PERIOD ==
    <<"u3044", "u3064", "u9803", "u304B", "u3089", "u3054", "u691C", "u8A0E", "u3092",
      "u59CB", "u3081", "u3089", "u308C", "u307E", "u3057", "u305F", "u304B">>

(***************************************************************************)
(* Bounded texts.                                                          *)
(***************************************************************************)
RECURSIVE Flatten(_)
Flatten(ss) == IF ss = <<>> THEN <<>> ELSE Head(ss) \o Flatten(Tail(ss))

SeqsUpTo(S, n) == UNION {[1..k -> S] : k \in 0..n}

Run(c, n) == [i \in 1..n |-> c]

\* s occurs in text at position i
OccursAt(s, text, i) ==
    i >= 1 /\ i + Len(s) - 1 <= Len(text) /\ SubSeq(text, i, i + Len(s) - 1) = s
Occurs(s, text) == \E i \in 1..Len(text) : OccursAt(s, text, i)

\* Documents for extractSection: up to MaxSectionTokens pieces, a piece being
\* a section header, a text character, a line feed, a run of '=' one short
\* of a banner, or a shortest banner (adjacent runs join into longer ones).
MaxSectionTokens == 5
SectionTokens ==
    {SEC_CUSTOMER, <<"x">>, <<NL>>, Run("=", BannerMin - 1), Run("=", BannerMin)}
SectionDocs == {Flatten(ts) : ts \in SeqsUpTo(SectionTokens, MaxSectionTokens)}
SectionNames == {SEC_CUSTOMER, SEC_SURVEY}

\* Section texts for extractField: up to MaxFieldTokens pieces.
MaxFieldTokens == 5
FieldTokens == {LBL_NAME, <<":">>, <<FullColon>>, <<" ">>, <<NL>>, <<"v">>}
FieldSections == {Flatten(ts) : ts \in SeqsUpTo(FieldTokens, MaxFieldTokens)}
FieldNames == {LBL_NAME, LBL_EMAIL}

\* Survey texts for extractSurveyAnswer: up to MaxSurveyBlocks blocks
\* marker question marker [line feed] answer [line feed], as in the
\* notification mail; a question may carry a prefix or a closing mark.
MaxSurveyBlocks == 2
Q_PERIOD_PREFIX ==
    <<"u65B0", "u3057", "u3044", "u304A", "u4F4F", "u307E", "u3044", "u306B", "u3064",
      "u3044", "u3066", "u3001">>
SurveyQuestionTexts ==
    {Q_HOUSING, Q_HOUSING \o <<"u3002">>, Q_PERIOD \o <<"uFF1F">>,
     Q_PERIOD_PREFIX \o Q_PERIOD \o <<"uFF1F">>}
SurveyAnswers == {<<>>, <<"a">>, <<"a", " ", "b">>}
SurveyBlocks ==
    {<<Marker>> \o q \o <<Marker>> \o s1 \o a \o s2 :
        q \in SurveyQuestionTexts, s1 \in {<<>>, <<NL>>},
        a \in SurveyAnswers, s2 \in {<<>>, <<NL>>}}
SurveyTexts == {Flatten(bs) : bs \in SeqsUpTo(SurveyBlocks, MaxSurveyBlocks)}
SurveyQuestions == {Q_HOUSING, Q_PERIOD}

(***************************************************************************)
(* Specifications of the pure functions: one call per step, on arguments   *)
(* drawn from the bounded sets; call records the function, its arguments   *)
(* and what it returned.                                                   *)
(***************************************************************************)
MaxRequests == 2
Requests == 1..MaxRequests
\* the 60 and the 1000 of (response.data.expire - 60) * 1000
ExpiryBufferSec == 60
MsPerSec == 1000
\* one step of the clock: half a minute of Date.now()
TickMs == 30 * MsPerSec

NoHandler ==
    [route |-> "none", pc |-> "idle", parsedData |-> <<>>, createRecordArg |-> <<>>,
     token |-> 0, tokenCall |-> <<>>, responses |-> <<>>, calls |-> <<>>]
\* after module load: no request yet, new LarkBaseService() with no token
ServerInit ==
    /\ nodeEnv \in {"development", "production"}
    /\ handler = [i \in Requests |-> NoHandler]
    /\ accessToken = 0
    /\ tokenExpiry = 0
    /\ issued = 0
    /\ clock = TickMs

Idle == [fn |-> "none", args |-> <<>>, result |-> <<>>]
\* a call about to be made on a freshly loaded module
Pending(args) == [fn |-> "pending", args |-> args, result |-> <<>>]
Returned(fn, result) == [fn |-> fn, args |-> call.args, result |-> result]
\* the module as loaded, with the development environment
ServerIdle ==
    /\ nodeEnv = "development"
    /\ handler = [i \in Requests |-> NoHandler]
    /\ accessToken = 0 /\ tokenExpiry = 0 /\ issued = 0 /\ clock = TickMs

InitSection ==
    /\ ServerIdle
    /\ \E content \in SectionDocs, sectionName \in SectionNames :
           call = Pending(<<content, sectionName>>)
CallExtractSection ==
    /\ call.fn = "pending"
    /\ call' = Returned("extractSection", extractSection(call.args[1], call.args[2]))
    /\ UNCHANGED server
SpecSection == InitSection /\ [][CallExtractSection]_vars

InitField ==
    /\ ServerIdle
    /\ \E section \in FieldSections, fieldName \in FieldNames :
           call = Pending(<<section, fieldName>>)
CallExtractField ==
    /\ call.fn = "pending"
    /\ call' = Returned("extractField", extractField(call.args[1], call.args[2]))
    /\ UNCHANGED server
SpecField == InitField /\ [][CallExtractField]_vars

InitSurvey ==
    /\ ServerIdle
    /\ \E section \in SurveyTexts, question \in SurveyQuestions :
           call = Pending(<<section, question>>)
CallExtractSurveyAnswer ==
    /\ call.fn = "pending"
    /\ call' = Returned("extractSurveyAnswer", extractSurveyAnswer(call.args[1], call.args[2]))
    /\ UNCHANGED server
SpecSurvey == InitSurvey /\ [][CallExtractSurveyAnswer]_vars

(***************************************************************************)
(* C3                                                                      *)
(***************************************************************************)
\* a run of at least BannerMin '=' characters starts at position j
BannerAt(text, j) ==
    j + BannerMin - 1 <= Len(text) /\ \A d \in 0..(BannerMin - 1) : text[j + d] = "="

\* C3: extractSection returns the empty string when the section name does
\* not occur in the document; otherwise it returns the text that starts at
\* the first occurrence of the name and ends immediately before the next
\* run of 8 or more '=' characters, or at the end of the document when no
\* such run follows.
C3_SectionExtent ==
    call.fn = "extractSection" =>
        LET content == call.args[1]
            name == call.args[2]
            r == call.result
        IN  IF ~Occurs(name, content) THEN r = <<>>
            ELSE \E i \in 1..Len(content) :
                    /\ OccursAt(name, content, i)
                    /\ \A h \in 1..(i - 1) : ~OccursAt(name, content, h)
                    /\ Len(r) >= Len(name)
                    /\ r = SubSeq(content, i, i + Len(r) - 1)
                    /\ \A j \in (i + Len(name))..(i + Len(r) - 1) : ~BannerAt(content, j)
                    /\ \/ i + Len(r) = Len(content) + 1
                       \/ BannerAt(content, i + Len(r))

\* C3 witness: a document with two occurrences of the header, the first
\* followed by text and then a banner; the call returned the text from the
\* first header up to that banner.
C3_Witness ==
    /\ call.fn = "extractSection"
    /\ call.args[2] = SEC_CUSTOMER
    /\ call.args[1] = SEC_CUSTOMER \o <<"x">> \o Run("=", BannerMin) \o SEC_CUSTOMER
    /\ call.result = SEC_CUSTOMER \o <<"x">>


(***************************************************************************)
(* C4                                                                      *)
(***************************************************************************)
\* position of the line feed that ends the line of position i (Len + 1 on
\* the last line)
LineEnd(text, i) ==
    Min({j \in i..(Len(text) + 1) : j = Len(text) + 1 \/ text[j] = NL})

\* the label occurs at i and its separator, after optional blanks, at p on
\* the same line
LabelLine(text, label, i, p) ==
    /\ OccursAt(label, text, i)
    /\ i + Len(label) <= p /\ p < LineEnd(text, i)
    /\ text[p] \in {":", FullColon}
    /\ \A j \in (i + Len(label))..(p - 1) : text[j] \in SpaceChars

\* C4: extractField never captures across a line boundary: a non-empty
\* result is the trimmed text between the separator and the end of the same
\* line on which the label occurs (so a label whose line is blank after
\* the separator yields no text of the following line).
C4_WithinLine ==
    call.fn = "extractField" /\ call.result # <<>> =>
        LET section == call.args[1]
            label == call.args[2]
        IN  \E i \in 1..Len(section), p \in 1..Len(section) :
                /\ LabelLine(section, label, i, p)
                /\ call.result = Trim(SubSeq(section, p + 1, LineEnd(section, i) - 1))

(***************************************************************************)
(* extractField with labels that hold pattern operators.                   *)
(***************************************************************************)
MaxMetaLines == 2
MetaLabels ==
    {<<"a", ".", "c">>, <<"a", "b", "?">>, <<"a", "b", "*">>, <<"a", "(">>, <<"a", "b">>,
     <<"?", "a">>}
MetaLineNames ==
    MetaLabels \cup {<<"a", "b", "c">>, <<"a">>, <<"a", "b", "b">>, <<"x">>}
MetaLines == {name \o <<":", " ", "v", NL>> : name \in MetaLineNames}
MetaSections == {Flatten(ls) : ls \in SeqsUpTo(MetaLines, MaxMetaLines)}

InitMetaField ==
    /\ ServerIdle
    /\ \E section \in MetaSections, fieldName \in MetaLabels :
           call = Pending(<<section, fieldName>>)
\* new RegExp(...) throws on a source that is no pattern; else the field
CallExtractFieldMeta ==
    /\ call.fn = "pending"
    /\ call' = Returned("extractField",
                        IF SyntaxError(call.args[2])
                        THEN [threw |-> TRUE, message |-> "Invalid regular expression",
                              value |-> <<>>]
                        ELSE [threw |-> FALSE, message |-> "",
                              value |-> extractField(call.args[1], call.args[2])])
    /\ UNCHANGED server
SpecMetaField == InitMetaField /\ [][CallExtractFieldMeta]_vars

(***************************************************************************)
(* C15                                                                     *)
(***************************************************************************)
\* C15: extractField with a label that holds pattern operators does not
\* raise because of the label, and returns a value only from a section in
\* which the label occurs character for character.
C15_LiteralLabel ==
    call.fn = "extractField" =>
        /\ ~call.result.threw
        /\ call.result.value # <<>> => Occurs(call.args[2], call.args[1])

(***************************************************************************)
(* C5                                                                      *)
(***************************************************************************)
MarkersFrom(text, i) == {j \in i..Len(text) : text[j] = Marker}

\* the answer the survey layout gives the question: the trimmed text between
\* the marker closing the first marker + question and the marker after it
\* (or the end of the text); empty when the question is not found
AnswerOf(text, question) ==
    LET opens == {i \in 1..Len(text) :
                     text[i] = Marker /\ OccursAt(question, text, i + 1)
                       /\ MarkersFrom(text, i + 1 + Len(question)) # {}}
    IN  IF opens = {} THEN <<>>
        ELSE LET closing == Min(MarkersFrom(text, Min(opens) + 1 + Len(question)))
                 after == MarkersFrom(text, closing + 1)
                 stop == IF after = {} THEN Len(text) + 1 ELSE Min(after)
             IN  Trim(SubSeq(text, closing + 1, stop - 1))

\* C5: extractSurveyAnswer returns the trimmed text between the closing
\* marker of the matched question and the next marker (or the end of the
\* section), also when the answer is on a line of its own or empty, and the
\* empty string when the question is not found; never a following question.
C5_AnswerBetweenMarkers ==
    call.fn = "extractSurveyAnswer" =>
        call.result = AnswerOf(call.args[1], call.args[2])

(***************************************************************************)
(* extractSurveyAnswer called again and again.  call.regexes holds the     *)
(* RegExp objects the calls so far have created, call.returned what each   *)
(* call returned for its arguments, call.scannedFrom the lastIndex the     *)
(* latest call's exec started from.                                        *)
(***************************************************************************)
MaxCalls == 2
\* survey texts of two blocks with the answer on the marker's line
InlineBlocks ==
    {<<Marker>> \o q \o <<Marker>> \o a : q \in SurveyQuestions, a \in {<<"a">>, <<"b">>}}
RepeatTexts == {b1 \o b2 : b1 \in InlineBlocks, b2 \in InlineBlocks}

InitSurveyAgain ==
    /\ ServerIdle
    /\ call = [fn |-> "none", args |-> <<>>, result |-> <<>>, regexes |-> {},
               returned |-> <<>>, scannedFrom |-> 0]
CallExtractSurveyAnswerAgain ==
    /\ Len(call.returned) < MaxCalls
    /\ \E section \in RepeatTexts, question \in SurveyQuestions :
         LET regex == NewRegExp(SurveyRegex(question), call.regexes)
         IN  \E exec \in {RegExpExec(regex, section)} :
               LET answer == IF exec.match.ok THEN Trim(Group(exec.match, 1, section))
                             ELSE <<>>
               IN  call' = [fn |-> "extractSurveyAnswer", args |-> <<section, question>>,
                            result |-> answer,
                            regexes |-> (call.regexes \ {regex}) \cup {exec.regex},
                            returned |-> Append(call.returned, <<section, question, answer>>),
                            scannedFrom |-> regex.lastIndex]
    /\ UNCHANGED server
SpecSurveyAgain == InitSurveyAgain /\ [][CallExtractSurveyAnswerAgain]_vars

NullValue == <<>>
Num(n) == <<n>>
\* JavaScript truthiness of a text field and of a numeric field
TruthyText(s) == s # <<>>
TruthyNum(v) == v # NullValue /\ v[1] # 0

\* /^[^\s@]+@[^\s@]+\.[^\s@]+$/
EmailRegex ==
    <<Bol, Greedy("notSpaceAt", 1), Ch("@"), Greedy("notSpaceAt", 1), Ch("."),
      Greedy("notSpaceAt", 1), Eol>>
isValidEmail(email) == Exec(EmailRegex, email).ok

\* /^0[0-9]{1,4}-?[0-9]{1,4}-?[0-9]{3,4}$|^0[0-9]{9,11}$/
PhoneRegexGrouped ==
    <<Bol, Ch("0"), Between("digit", 1, 4), OptCh("-"), Between("digit", 1, 4),
      OptCh("-"), Between("digit", 3, 4), Eol>>
PhoneRegexBare == <<Bol, Ch("0"), Between("digit", 9, 11), Eol>>
\* phone.replace(/[-\s]/g, '')
StripDashSpace(s) == SelectSeq(s, LAMBDA c : c # "-" /\ c \notin SpaceChars)
isValidPhone(phone) ==
    LET bare == StripDashSpace(phone)
    IN  Exec(PhoneRegexGrouped, bare).ok \/ Exec(PhoneRegexBare, bare).ok

\* the 120 of age < 120
AgeLimit == 120
\* Number.isInteger(age) && age > 0 && age < 120, on an integer
isValidAge(age) == age > 0 /\ age < AgeLimit

If(cond, msg) == IF cond THEN <<msg>> ELSE <<>>

\* EmailParser.validateData with the loop over the required fields ending at
\* the first missing one
validateData_ShortCircuit(data) ==
    LET errors ==
            IF ~TruthyText(data.customerName)
            THEN <<"Missing required field: customerName">>
            ELSE If(~TruthyText(data.customerEmail), "Missing required field: customerEmail")
                   \o If(TruthyText(data.customerEmail) /\ ~isValidEmail(data.customerEmail),
                         "Invalid email format")
    IN  [isValid |-> Len(errors) = 0, errors |-> errors]

\* EmailParser.validateData
validateData(data) ==
    LET errors ==
            If(~TruthyText(data.customerName), "Missing required field: customerName")
              \o If(~TruthyText(data.customerEmail), "Missing required field: customerEmail")
              \o If(TruthyText(data.customerEmail) /\ ~isValidEmail(data.customerEmail),
                    "Invalid email format")
    IN  [isValid |-> Len(errors) = 0, errors |-> errors]

\* EventRegistration.validate, on the fields the constructor copied
validate(this) ==
    LET errors ==
            If(~TruthyText(this.customerName), "Customer name is required")
              \o If(~TruthyText(this.customerEmail), "Customer email is required")
              \o If(~TruthyText(this.eventName), "Event name is required")
              \o If(TruthyText(this.customerEmail) /\ ~isValidEmail(this.customerEmail),
                    "Invalid email format")
              \o If(TruthyText(this.customerPhone) /\ ~isValidPhone(this.customerPhone),
                    "Invalid phone number format")
              \o If(TruthyNum(this.customerAge) /\ ~isValidAge(this.customerAge[1]),
                    "Invalid age value")
    IN  [isValid |-> Len(errors) = 0, errors |-> errors]

\* Records to validate: each field empty, well formed or ill formed.
SomeNames == {<<>>, <<"x">>}
SomeEmails == {<<>>, <<"a", "@", "b", ".", "c">>, <<"a", "@", "b">>}
SomePhones ==
    {<<>>, <<"0", "9", "0", "9", "2", "7", "3", "4", "2", "3", "5">>,
     <<"0", "9", "0", "-", "9", "2", "7", "3", "-", "4", "2", "3", "5">>,
     <<"1", "2", "3", "4", "5">>, <<"0", "1", "2">>}
SomeAges == {NullValue, Num(0), Num(1), Num(AgeLimit - 1), Num(AgeLimit), Num(AgeLimit + 1)}
SomeAmounts == {NullValue, Num(0), Num(9)}
ValidationRecords ==
    [customerName : SomeNames, customerEmail : SomeEmails, eventName : SomeNames,
     customerPhone : SomePhones, customerAge : SomeAges,
     monthlyRent : SomeAmounts, monthlyPayment : {NullValue, Num(9)}]

InitValidate ==
    /\ ServerIdle
    /\ \E data \in ValidationRecords : call = Pending(<<data>>)
CallValidateData ==
    /\ call.fn = "pending"
    /\ call' = Returned("validateData", validateData(call.args[1]))
    /\ UNCHANGED server
CallValidate ==
    /\ call.fn = "pending"
    /\ call' = Returned("validate", validate(call.args[1]))
    /\ UNCHANGED server
NextValidate == CallValidateData \/ CallValidate
SpecValidate == InitValidate /\ [][NextValidate]_vars

Validated == call.fn \in {"validateData", "validate"}

(***************************************************************************)
(* C6                                                                      *)
(***************************************************************************)
\* C6: for every record in which customer name, customer email or event
\* name is empty, the validation result the pipeline returns (validateData,
\* the validator parseEventRegistration calls) has isValid = FALSE and one
\* error for each missing required field.
C6_RequiredFields ==
    call.fn = "validateData" =>
        LET data == call.args[1]
            missing == {f \in {"customerName", "customerEmail", "eventName"} :
                           ~TruthyText(data[f])}
        IN  missing # {} =>
                /\ ~call.result.isValid
                /\ Len(call.result.errors) >= Cardinality(missing)

(***************************************************************************)
(* C7                                                                      *)
(***************************************************************************)
OtherFieldsValid(data) ==
    /\ TruthyText(data.eventName)
    /\ data.customerPhone = <<>> \/ isValidPhone(data.customerPhone)
    /\ data.customerAge = NullValue \/ isValidAge(data.customerAge[1])
    /\ data.monthlyRent = NullValue \/ data.monthlyRent[1] >= 0
    /\ data.monthlyPayment = NullValue \/ data.monthlyPayment[1] >= 0

\* C7: validation does not short-circuit: for a record with empty customer
\* email and empty customer name and all other fields valid, the error list
\* holds exactly two errors, one for each missing field, and isValid = FALSE.
C7_TwoErrors ==
    Validated =>
        LET data == call.args[1]
            errors == call.result.errors
        IN  data.customerName = <<>> /\ data.customerEmail = <<>> /\ OtherFieldsValid(data) =>
                /\ ~call.result.isValid
                /\ Len(errors) = 2
                /\ {errors[1], errors[2]} =
                       IF call.fn = "validateData"
                       THEN {"Missing required field: customerName",
                             "Missing required field: customerEmail"}
                       ELSE {"Customer name is required", "Customer email is required"}

\* C7 witness: validateData has returned on a record whose name and email
\* are empty and whose other fields are valid.
C7_Witness ==
    /\ call.fn = "validateData"
    /\ call.args[1].customerName = <<>> /\ call.args[1].customerEmail = <<>>
    /\ OtherFieldsValid(call.args[1])
    /\ Len(call.result.errors) = 2

(***************************************************************************)
(* C8                                                                      *)
(***************************************************************************)
\* C8: if customerAge is present and not strictly between 0 and 120, or
\* customerPhone is non-empty and does not match the phone pattern, or an
\* amount is present and negative, the validation result has isValid = FALSE.
C8_FormatChecks ==
    Validated =>
        LET data == call.args[1]
        IN  \/ data.customerAge # NullValue /\ ~isValidAge(data.customerAge[1])
            \/ data.customerPhone # <<>> /\ ~isValidPhone(data.customerPhone)
            \/ data.monthlyRent # NullValue /\ data.monthlyRent[1] < 0
            \/ data.monthlyPayment # NullValue /\ data.monthlyPayment[1] < 0
            => ~call.result.isValid

(***************************************************************************)
(* EmailParser normalizers.                                                *)
(***************************************************************************)
Year == "u5E74"
Month == "u6708"
Day == "u65E5"

DigitVal(c) ==
    CASE c = "0" -> 0 [] c = "1" -> 1 [] c = "2" -> 2 [] c = "3" -> 3 [] c = "4" -> 4
      [] c = "5" -> 5 [] c = "6" -> 6 [] c = "7" -> 7 [] c = "8" -> 8 [] c = "9" -> 9
DigitChar(d) == <<"0", "1", "2", "3", "4", "5", "6", "7", "8", "9">>[d + 1]

\* parseInt on a run of decimal digits
RECURSIVE parseInt(_)
parseInt(ds) ==
    IF ds = <<>> THEN 0
    ELSE 10 * parseInt(SubSeq(ds, 1, Len(ds) - 1)) + DigitVal(ds[Len(ds)])

\* Number.prototype.toString of a non-negative integer
RECURSIVE toString(_)
toString(n) == IF n < 10 THEN <<DigitChar(n)>> ELSE toString(n \div 10) \o <<DigitChar(n % 10)>>

\* String.prototype.padStart(2, '0')
padStart2(s) == IF Len(s) >= 2 THEN s ELSE Run("0", 2 - Len(s)) \o s

\* /(\d{4})\u5E74(\d+)\u6708(\d+)\u65E5.*?-.*?(\d+)\u6708(\d+)\u65E5/
EventDateRegex ==
    <<Open(1), Between("digit", 4, 4), Close(1), Ch(Year),
      Open(2), Greedy("digit", 1), Close(2), Ch(Month),
      Open(3), Greedy("digit", 1), Close(3), Ch(Day),
      Lazy("dot", 0), Ch("-"), Lazy("dot", 0),
      Open(4), Greedy("digit", 1), Close(4), Ch(Month),
      Open(5), Greedy("digit", 1), Close(5), Ch(Day)>>

\* `${year}-${month.toString().padStart(2, '0')}-${day.toString().padStart(2, '0')}`
FormatDate(year, month, day) ==
    toString(year) \o <<"-">> \o padStart2(toString(month)) \o <<"-">> \o padStart2(toString(day))

parseEventDate(dateStr, isStart) ==
    IF dateStr = <<>> THEN NullValue
    ELSE Only({IF match.ok
             THEN LET year == parseInt(Group(match, 1, dateStr))
                      startMonth == parseInt(Group(match, 2, dateStr))
                      startDay == parseInt(Group(match, 3, dateStr))
                      endMonth == parseInt(Group(match, 4, dateStr))
                      endDay == parseInt(Group(match, 5, dateStr))
                  IN  IF isStart THEN FormatDate(year, startMonth, startDay)
                      ELSE FormatDate(year, endMonth, endDay)
             ELSE NullValue :
               match \in {Exec(EventDateRegex, dateStr)}})

\* Date texts: a first date YEAR M D with digit runs of up to MaxRunDigits
\* digits, a middle part and a rest, each possibly missing its date.
MaxRunDigits == 3
DigitRuns == UNION {[1..k -> {"0", "9"}] : k \in 1..MaxRunDigits}
DateYears == {<<"2", "0", "2", "5">>, <<"2", "0", "2">>, <<"1", "2", "0", "2", "5">>}
DateMiddles ==
    {<<"(", Month, ")", " ", "-", " ">>, <<" ", "-", " ">>, <<"-">>, <<" ">>,
     <<" ", "uFF5E", " ">>}
DateRests ==
    {<<>>, <<"9", Month, "1", "5", Day, "(", Month, ")">>, <<"1", "2", Month, "5", Day>>,
     <<"1", "5", Day>>}
DateTexts ==
    {<<>>}
      \cup {y \o <<Year>> \o m \o <<Month>> \o d \o <<Day>> \o mid \o rest :
              y \in DateYears, m \in DigitRuns, d \in {<<"1">>, <<"0", "8">>},
              mid \in DateMiddles, rest \in DateRests}

\* extractEventInfo parses the same field twice, for the start and the end
InitDate ==
    /\ ServerIdle
    /\ \E dateStr \in DateTexts : call = Pending(<<dateStr>>)
CallParseEventDate ==
    /\ call.fn = "pending"
    /\ call' = Returned("parseEventDate",
                        [dateStart |-> parseEventDate(call.args[1], TRUE),
                         dateEnd |-> parseEventDate(call.args[1], FALSE)])
    /\ UNCHANGED server
SpecDate == InitDate /\ [][CallParseEventDate]_vars

(***************************************************************************)
(* C10                                                                     *)
(***************************************************************************)
AllDigits(s) == \A i \in 1..Len(s) : s[i] \in Digits
\* d is YEAR-MM-DD: digits, '-', exactly two digits, '-', exactly two digits
YearOf(d) == SubSeq(d, 1, Len(d) - 6)
IsYearMonthDay(d) ==
    /\ Len(d) >= 7
    /\ AllDigits(YearOf(d)) /\ d[Len(d) - 5] = "-"
    /\ AllDigits(SubSeq(d, Len(d) - 4, Len(d) - 3)) /\ d[Len(d) - 2] = "-"
    /\ AllDigits(SubSeq(d, Len(d) - 1, Len(d)))
SampleEventDate ==
    <<"2", "0", "2", "5", Year, "9", Month, "1", Day, "(", Month, ")", " ", "-", " ",
      "9", Month, "1", "5", Day, "(", Month, ")">>

\* C10: parseEventDate(text, true) and parseEventDate(text, false) are both
\* null or both non-null; when non-null the start and the end are
\* YEAR-MM-DD with the same YEAR and month and day zero-padded to exactly
\* two digits (the sample range gives 2025-09-01 and 2025-09-15); a text
\* with no '-' gives null for both.
C10_EventDateRange ==
    call.fn = "parseEventDate" =>
        LET text == call.args[1]
            dateStart == call.result.dateStart
            dateEnd == call.result.dateEnd
        IN  /\ dateStart = NullValue <=> dateEnd = NullValue
            /\ dateStart # NullValue =>
                   /\ IsYearMonthDay(dateStart) /\ IsYearMonthDay(dateEnd)
                   /\ YearOf(dateStart) = YearOf(dateEnd)
            /\ text = SampleEventDate =>
                   /\ dateStart = <<"2", "0", "2", "5", "-", "0", "9", "-", "0", "1">>
                   /\ dateEnd = <<"2", "0", "2", "5", "-", "0", "9", "-", "1", "5">>
            /\ (\A i \in 1..Len(text) : text[i] # "-") => dateStart = NullValue

\* /(\d{4})\u5E74(\d+)\u6708(\d+)\u65E5/
ReservationDateRegex ==
    <<Open(1), Between("digit", 4, 4), Close(1), Ch(Year),
      Open(2), Greedy("digit", 1), Close(2), Ch(Month),
      Open(3), Greedy("digit", 1), Close(3), Ch(Day)>>

parseReservationDate(dateStr) ==
    IF dateStr = <<>> THEN NullValue
    ELSE Only({IF match.ok
             THEN FormatDate(parseInt(Group(match, 1, dateStr)),
                             parseInt(Group(match, 2, dateStr)),
                             parseInt(Group(match, 3, dateStr)))
             ELSE NullValue :
               match \in {Exec(ReservationDateRegex, dateStr)}})

\* /(\d+?)/: the digit run with a lazy quantifier
DigitRunRegex_Lazy == <<Open(1), Lazy("digit", 1), Close(1)>>

\* /(\d+)/
DigitRunRegex == <<Open(1), Greedy("digit", 1), Close(1)>>

parseAge(ageStr) ==
    IF ageStr = <<>> THEN NullValue
    ELSE Only({IF match.ok THEN Num(parseInt(Group(match, 1, ageStr))) ELSE NullValue :
               match \in {Exec(DigitRunRegex, ageStr)}})

parseAmount(amountStr) ==
    IF amountStr = <<>> THEN NullValue
    ELSE Only({IF match.ok THEN Num(parseInt(Group(match, 1, amountStr))) ELSE NullValue :
               match \in {Exec(DigitRunRegex, amountStr)}})

(***************************************************************************)
(* parseReservationDate on bounded texts.                                  *)
(***************************************************************************)
\* Reservation texts: YEAR, month and day digit runs of up to MaxRunDigits
\* digits, with the month and the day mark present or not, after a prefix.
ReservationPrefixes == {<<>>, <<"1">>, <<"(", Month, ")">>}
ReservationYears == DateYears \cup {<<"0", "0", "2", "5">>}
ReservationDays == {<<"8">>, <<"3", "1">>, <<"4", "0">>}
SampleReservationDate == <<"2", "0", "2", "5", Year, "9", Month, "8", Day>>
ReservationTexts ==
    {<<>>, SampleReservationDate}
      \cup {pre \o y \o <<Year>> \o m \o monthMark \o d \o dayMark :
              pre \in ReservationPrefixes, y \in ReservationYears, m \in DigitRuns,
              monthMark \in {<<Month>>, <<"/">>}, d \in ReservationDays,
              dayMark \in {<<Day>>, <<>>}}

InitReservationDate ==
    /\ ServerIdle
    /\ \E dateStr \in ReservationTexts : call = Pending(<<dateStr>>)
CallParseReservationDate ==
    /\ call.fn = "pending"
    /\ call' = Returned("parseReservationDate", parseReservationDate(call.args[1]))
    /\ UNCHANGED server
SpecReservationDate == InitReservationDate /\ [][CallParseReservationDate]_vars

(***************************************************************************)
(* C11                                                                     *)
(***************************************************************************)
\* the digit run that ends right before position i is not empty
DigitRunBefore(text, i) == i > 1 /\ text[i - 1] \in Digits
\* text holds digits, the year mark, digits, the month mark, digits, the day mark
HoldsYearMonthDay(text) ==
    \E i, j, k \in 1..Len(text) :
        /\ i < j /\ j < k
        /\ text[i] = Year /\ text[j] = Month /\ text[k] = Day
        /\ DigitRunBefore(text, i) /\ DigitRunBefore(text, j) /\ DigitRunBefore(text, k)
        /\ AllDigits(SubSeq(text, i + 1, j - 1)) /\ AllDigits(SubSeq(text, j + 1, k - 1))
\* d is an ISO calendar date: YYYY-MM-DD, MM in 01..12 and DD in 01..31
IsIsoDate(d) ==
    /\ Len(d) = 10
    /\ AllDigits(SubSeq(d, 1, 4)) /\ d[5] = "-"
    /\ AllDigits(SubSeq(d, 6, 7)) /\ d[8] = "-"
    /\ AllDigits(SubSeq(d, 9, 10))
    /\ 10 * DigitVal(d[6]) + DigitVal(d[7]) \in 1..12
    /\ 10 * DigitVal(d[9]) + DigitVal(d[10]) \in 1..31

\* C11: parseReservationDate(text) is null or an ISO calendar date
\* YYYY-MM-DD with a 4-digit year, a month in 01..12 and a day in 01..31; it
\* is null when text holds no YEAR/MONTH/DAY date, and the sample
\* 2025\u5E749\u67088\u65E5 gives 2025-09-08.
C11_ReservationDate ==
    call.fn = "parseReservationDate" =>
        /\ call.result = NullValue \/ IsIsoDate(call.result)
        /\ ~HoldsYearMonthDay(call.args[1]) => call.result = NullValue
        /\ call.args[1] = SampleReservationDate =>
               call.result = <<"2", "0", "2", "5", "-", "0", "9", "-", "0", "8">>

(***************************************************************************)
(* parseAge and parseAmount on bounded texts.                              *)
(***************************************************************************)
\* \u6B73 (years of age), \u4E07 (ten thousand), \u5186 (yen)
AgeUnit == "u6B73"
TenThousand == "u4E07"
Yen == "u5186"
MaxNumberLen == 4
NumberChars == {"0", "2", "3", "9", " ", AgeUnit, TenThousand, "uFF12"}
NumberTexts ==
    SeqsUpTo(NumberChars, MaxNumberLen) \cup {<<"9", TenThousand, Yen>>}

InitNumber ==
    /\ ServerIdle
    /\ \E text \in NumberTexts : call = Pending(<<text>>)
CallParseAge ==
    /\ call.fn = "pending"
    /\ call' = Returned("parseAge", parseAge(call.args[1]))
    /\ UNCHANGED server
CallParseAmount ==
    /\ call.fn = "pending"
    /\ call' = Returned("parseAmount", parseAmount(call.args[1]))
    /\ UNCHANGED server
NextNumber == CallParseAge \/ CallParseAmount
SpecNumber == InitNumber /\ [][NextNumber]_vars

(***************************************************************************)
(* C12                                                                     *)
(***************************************************************************)
RECURSIVE Pow10(_)
Pow10(k) == IF k = 0 THEN 1 ELSE 10 * Pow10(k - 1)
\* the first maximal run of decimal digits of text, as positions from..to
DigitPositions(text) == {i \in 1..Len(text) : text[i] \in Digits}
FirstRunEnd(text, from) ==
    Max({j \in from..Len(text) : \A i \in from..j : text[i] \in Digits})
\* the integer the digits at from..to write
RunValue(text, from, to) ==
    IF to - from = 0 THEN DigitVal(text[from])
    ELSE LET weights == [i \in from..to |-> DigitVal(text[i]) * Pow10(to - i)]
             Sum[i \in from..to] == IF i = from THEN weights[i] ELSE weights[i] + Sum[i - 1]
         IN  Sum[to]
FirstRunValue(text) ==
    LET from == Min(DigitPositions(text))
    IN  RunValue(text, from, FirstRunEnd(text, from))

\* C12: for every string, parseAge and parseAmount return the integer value
\* of the first maximal run of decimal digits, with no unit scaling, and
\* null when the text is empty or has no digit: parseAge of 23 and the age
\* unit is 23, parseAge of the empty text is null, parseAmount of 9, ten
\* thousand, yen is 9.
C12_FirstDigitRun ==
    call.fn \in {"parseAge", "parseAmount"} =>
        LET text == call.args[1]
        IN  /\ DigitPositions(text) = {} => call.result = NullValue
            /\ DigitPositions(text) # {} => call.result = Num(FirstRunValue(text))
            /\ (call.fn = "parseAge" /\ text = <<"2", "3", AgeUnit>>) => call.result = Num(23)
            /\ (call.fn = "parseAmount" /\ text = <<"9", TenThousand, Yen>>) => call.result = Num(9)

\* C12 witness: parseAmount returned 23 for a run of two digits followed by
\* the ten-thousand unit and a second run.
C12_Witness ==
    /\ call.fn = "parseAmount"
    /\ call.args[1] = <<"2", "3", TenThousand, "9">>
    /\ call.result = Num(23)

(***************************************************************************)
(* EmailParser.parseEventRegistration.                                     *)
(*                                                                         *)
(* A JavaScript value is [type, str, num]; emailData is JsNull or an       *)
(* object [type |-> "object", subject, body, received_time] of values.     *)
(* A completion is [threw, message, value]: a return of value or a throw   *)
(* of an Error with that message.                                          *)
(***************************************************************************)
JsUndefined == [type |-> "undefined", str |-> <<>>, num |-> 0]
JsNull == [type |-> "null", str |-> <<>>, num |-> 0]
JsString(s) == [type |-> "string", str |-> s, num |-> 0]
JsNumber(n) == [type |-> "number", str |-> <<>>, num |-> n]
JsObject == [type |-> "object", str |-> <<>>, num |-> 0]
Truthy(v) ==
    CASE v.type = "string" -> v.str # <<>>
      [] v.type = "number" -> v.num # 0
      [] v.type = "object" -> TRUE
      [] OTHER -> FALSE

Return(value) == [threw |-> FALSE, message |-> "", value |-> value]
Throw(message) == [threw |-> TRUE, message |-> message, value |-> NullValue]

extractEventInfo(content) ==
    Only({[name |-> extractField(eventSection, LBL_EVENT_NAME),
         dateStart |-> parseEventDate(extractField(eventSection, LBL_EVENT_DATE), TRUE),
         dateEnd |-> parseEventDate(extractField(eventSection, LBL_EVENT_DATE), FALSE),
         time |-> extractField(eventSection, LBL_TIME),
         venue |-> extractField(eventSection, LBL_VENUE),
         url |-> extractField(eventSection, LBL_URL)] :
          eventSection \in {extractSection(content, SEC_EVENT)}})

extractReservationInfo(content) ==
    Only({[date |-> parseReservationDate(extractField(reservationSection, LBL_DESIRED_DATE)),
         time |-> extractField(reservationSection, LBL_DESIRED_TIME)] :
          reservationSection \in {extractSection(content, SEC_RESERVATION)}})

extractCustomerInfo(content) ==
    Only({[name |-> extractField(customerSection, LBL_NAME),
         furigana |-> extractField(customerSection, LBL_FURIGANA),
         email |-> extractField(customerSection, LBL_EMAIL),
         phone |-> extractField(customerSection, LBL_PHONE),
         age |-> parseAge(extractField(customerSection, LBL_AGE)),
         rent |-> parseAmount(extractField(customerSection, LBL_RENT)),
         payment |-> parseAmount(extractField(customerSection, LBL_PAYMENT)),
         postalCode |-> extractField(customerSection, LBL_POSTAL),
         address |-> extractField(customerSection, LBL_ADDRESS),
         comments |-> extractField(customerSection, LBL_COMMENTS),
         leadSource |-> extractField(customerSection, LBL_LEAD_SOURCE)] :
          customerSection \in {extractSection(content, SEC_CUSTOMER)}})

extractSurveyInfo(content) ==
    Only({[housingType |-> extractSurveyAnswer(surveySection, Q_HOUSING),
         considerationPeriod |-> extractSurveyAnswer(surveySection, Q_PERIOD)] :
          surveySection \in {extractSection(content, SEC_SURVEY)}})

STATUS_NEW == <<"u65B0", "u898F">>

\* parsedData with emailReceivedDate read from the clock
AssembleRecord_ReceivedNow(emailData, now, eventInfo, reservationInfo, customerInfo, surveyInfo) ==
    [emailReceivedDate |-> JsNumber(now),
     createdAt |-> now,
     status |-> STATUS_NEW,
     eventName |-> eventInfo.name,
     eventDateStart |-> eventInfo.dateStart,
     eventDateEnd |-> eventInfo.dateEnd,
     eventTime |-> eventInfo.time,
     eventVenue |-> eventInfo.venue,
     eventUrl |-> eventInfo.url,
     desiredDate |-> reservationInfo.date,
     desiredTime |-> reservationInfo.time,
     customerName |-> customerInfo.name,
     customerFurigana |-> customerInfo.furigana,
     customerEmail |-> customerInfo.email,
     customerPhone |-> customerInfo.phone,
     customerAge |-> customerInfo.age,
     monthlyRent |-> customerInfo.rent,
     monthlyPayment |-> customerInfo.payment,
     postalCode |-> customerInfo.postalCode,
     address |-> customerInfo.address,
     comments |-> customerInfo.comments,
     leadSource |-> customerInfo.leadSource,
     housingType |-> surveyInfo.housingType,
     considerationPeriod |-> surveyInfo.considerationPeriod]

\* const parsedData = { ... }
AssembleRecord(emailData, now, eventInfo, reservationInfo, customerInfo, surveyInfo) ==
    [emailReceivedDate |-> emailData.received_time,
     createdAt |-> now,
     status |-> STATUS_NEW,
     eventName |-> eventInfo.name,
     eventDateStart |-> eventInfo.dateStart,
     eventDateEnd |-> eventInfo.dateEnd,
     eventTime |-> eventInfo.time,
     eventVenue |-> eventInfo.venue,
     eventUrl |-> eventInfo.url,
     desiredDate |-> reservationInfo.date,
     desiredTime |-> reservationInfo.time,
     customerName |-> customerInfo.name,
     customerFurigana |-> customerInfo.furigana,
     customerEmail |-> customerInfo.email,
     customerPhone |-> customerInfo.phone,
     customerAge |-> customerInfo.age,
     monthlyRent |-> customerInfo.rent,
     monthlyPayment |-> customerInfo.payment,
     postalCode |-> customerInfo.postalCode,
     address |-> customerInfo.address,
     comments |-> customerInfo.comments,
     leadSource |-> customerInfo.leadSource,
     housingType |-> surveyInfo.housingType,
     considerationPeriod |-> surveyInfo.considerationPeriod]

\* the try block: emailData.body throws on a null emailData, content.match
\* throws on a content that is no string
ParseBody(emailData, now) ==
    IF emailData.type # "object" THEN Throw("Cannot read properties of null (reading 'body')")
    ELSE LET content == IF Truthy(emailData.body) THEN emailData.body ELSE JsString(<<>>)
         IN  IF content.type # "string" THEN Throw("content.match is not a function")
             ELSE Only({LET validation == validateData(parsedData)
                        IN  Return([isValid |-> validation.isValid, data |-> <<parsedData>>,
                                    errors |-> validation.errors]) :
                        parsedData \in
                            {AssembleRecord(emailData, now, eventInfo, reservationInfo,
                                            customerInfo, surveyInfo) :
                                 eventInfo \in {extractEventInfo(content.str)},
                                 reservationInfo \in {extractReservationInfo(content.str)},
                                 customerInfo \in {extractCustomerInfo(content.str)},
                                 surveyInfo \in {extractSurveyInfo(content.str)}}})

\* parseEventRegistration with the try/catch left out
parseEventRegistration_NoCatch(emailData, now) == ParseBody(emailData, now)

parseEventRegistration(emailData, now) ==
    Only({IF body.threw
        THEN Return([isValid |-> FALSE, data |-> NullValue, errors |-> <<body.message>>])
        ELSE body :
          body \in {ParseBody(emailData, now)}})

\* const testEmailContent = `...`
testEmailContent ==
    Flatten(<<
      <<"[", "S", "T", "Y", "L", "E", " ", "H", "O", "U", "S", "E", "]", " ", "u30A4",
        "u30D9", "u30F3", "u30C8", "u306E", "u53C2", "u52A0", "u304A", "u7533", "u3057",
        "u8FBC", "u307F", "u304C", "u3042", "u308A", "u307E", "u3057", "u305F", "u3002",
        " ", "2", "0", "2", "5", "-", "0", "9", "-", "0", "2", " ", "2", "2", ":", "3",
        "4", ":", "5", "7", "nl">>,
      Run("=", 40) \o <<NL>>,
      <<"u30A4", "u30D9", "u30F3", "u30C8", "u60C5", "u5831", "nl">>,
      Run("=", 40) \o <<NL>>,
      <<"u30A4", "u30D9", "u30F3", "u30C8", "u540D", " ", ":", " ", "u3010", "u82B1",
        "u535A", "u8A18", "u5FF5", "u516C", "u5712", "u30CF", "u30A6", "u30B8", "u30F3",
        "u30B0", "u30AC", "u30FC", "u30C7", "u30F3", "u3011", "u30E2", "u30F3", "u30C6",
        "u30C3", "u30BD", "u30FC", "u30EA", "u306E", "u6728", "u88FD", "u30D1", "u30BA",
        "u30EB", "u30DC", "u30C3", "u30AF", "u30B9", "u304C", "u3082", "u3089", "u3048",
        "u308B", "u266A", "u8C6A", "u83EF", "u7279", "u5178", "u3064", "u304D", "u30FB",
        "9", "u6708", "u9650", "u5B9A", "u30A4", "u30D9", "u30F3", "u30C8", "uFF01", "nl">>,
      <<"u958B", "u50AC", "u65E5", " ", ":", " ", "2", "0", "2", "5", "u5E74", "9",
        "u6708", "1", "u65E5", "(", "u6708", ")", " ", "-", " ", "9", "u6708", "1", "5",
        "u65E5", "(", "u6708", ")", "nl">>,
      <<"u6642", "u9593", " ", ":", " ", "a", "m", "9", ":", "3", "0", "~", "p", "m", "6",
        ":", "0", "0", " ", "(", "u5B9A", "u4F11", "u65E5", ":", "u6C34", "u66DC", "u65E5",
        ")", "nl">>,
      <<"u4F1A", "u5834", " ", ":", " ", "S", "T", "Y", "L", "E", " ", "H", "O", "U", "S",
        "E", "u3000", "u82B1", "u535A", "u8A18", "u5FF5", "u516C", "u5712", "u30CF",
        "u30A6", "u30B8", "u30F3", "u30B0", "u30AC", "u30FC", "u30C7", "u30F3", "nl">>,
      <<"U", "R", "L", " ", ":", " ", "h", "t", "t", "p", "s", ":", "/", "/", "w", "w",
        "w", ".", "t", "a", "n", "i", "u", "e", ".", "j", "p", "/", "e", "v", "e", "n",
        "t", "/", "d", "e", "t", "a", "i", "l", "s", "_", "1", "0", "5", ".", "h", "t",
        "m", "l", "nl">>,
      Run("=", 40) \o <<NL>>,
      <<"u3054", "u4E88", "u7D04", "u60C5", "u5831", "nl">>,
      Run("=", 40) \o <<NL>>,
      <<"u3054", "u5E0C", "u671B", "u65E5", " ", "uFF1A", " ", "2", "0", "2", "5", "u5E74",
        "9", "u6708", "8", "u65E5", "nl">>,
      <<"u3054", "u5E0C", "u671B", "u6642", "u9593", " ", "uFF1A", " ", "1", "1", ":", "3",
        "0", "uFF5E", "1", "3", ":", "0", "0", "nl">>,
      Run("=", 40) \o <<NL>>,
      <<"u304A", "u5BA2", "u69D8", "u60C5", "u5831", "nl">>,
      Run("=", 40) \o <<NL>>,
      <<"u304A", "u540D", "u524D", " ", ":", " ", "u6D5C", "u5D0E", "u6C99", "u7DBE", "nl">>,
      <<"u30D5", "u30EA", "u30AC", "u30CA", " ", ":", " ", "u30CF", "u30DE", "u30B6",
        "u30AD", "u30B5", "u30E4", "nl">>,
      <<"u30E1", "u30FC", "u30EB", "u30A2", "u30C9", "u30EC", "u30B9", " ", ":", " ", "u",
        "t", "o", "s", "a", "b", "u", ".", "a", "d", "h", "i", "k", "a", "r", "i", "@",
        "a", "l", "l", "a", "g", "i", ".", "j", "p", "nl">>,
      <<"u96FB", "u8A71", "u756A", "u53F7", " ", ":", " ", "0", "9", "0", "9", "2", "7",
        "3", "4", "2", "3", "5", "nl">>,
      <<"u5E74", "u9F62", " ", ":", " ", "2", "3", "u6B73", "nl">>,
      <<"u6BCE", "u6708", "u306E", "u5BB6", "u8CC3", " ", ":", " ", "9", "u4E07", "u5186",
        "nl">>,
      <<"u6708", "u3005", "u306E", "u8FD4", "u6E08", "u984D", " ", ":", " ", "9", "u4E07",
        "u5186", "nl">>,
      <<"u90F5", "u4FBF", "u756A", "u53F7", " ", ":", " ", "u3012", "6", "5", "5", "-",
        "0", "8", "5", "2", "nl">>,
      <<"u3054", "u4F4F", "u6240", " ", ":", " ", "u5175", "u5EAB", "u770C", "u795E",
        "u6238", "u5E02", "u5782", "u6C34", "u533A", "u540D", "u8C37", "u753A", "u5B57",
        "u5965", "u4E4B", "u574A", "2", "1", "0", "7", "-", "1", "u30EA", "u30F4", "u30A7",
        "u30FC", "u30EB", "u30B3", "u30FC", "u30C8", "u540D", "u8C37", "1", "0", "1", "nl">>,
      <<"u3054", "u610F", "u898B", "u30FB", "u3054", "u8CEA", "u554F", "u7B49", " ", ":",
        " ", "nl">>,
      <<"u3054", "u4E88", "u7D04", "u306E", "u304D", "u3063", "u304B", "u3051", " ", ":",
        " ", "u30A4", "u30F3", "u30B9", "u30BF", "u30B0", "u30E9", "u30E0", "nl">>,
      Run("=", 40) \o <<NL>>,
      <<"u30A2", "u30F3", "u30B1", "u30FC", "u30C8", "nl">>,
      Run("=", 40) \o <<NL>>,
      <<"u25BC", "u65B0", "u3057", "u3044", "u304A", "u4F4F", "u307E", "u3044", "u306E",
        "u3054", "u5E0C", "u671B", "u3092", "u6559", "u3048", "u3066", "u304F", "u3060",
        "u3055", "u3044", "u3002", "u25BC", "nl">>,
      <<"u571F", "u5730", "u304C", "u3042", "u3063", "u3066", "u65B0", "u7BC9", "nl">>,
      <<"u25BC", "u65B0", "u3057", "u3044", "u304A", "u4F4F", "u307E", "u3044", "u306B",
        "u3064", "u3044", "u3066", "u3001", "u3044", "u3064", "u9803", "u304B", "u3089",
        "u3054", "u691C", "u8A0E", "u3092", "u59CB", "u3081", "u3089", "u308C", "u307E",
        "u3057", "u305F", "u304B", "uFF1F", "u25BC", "nl">>,
      <<"3", "u30F6", "u6708", "u524D", "u304B", "u3089", "nl">>,
      <<"u25BC", "u3054", "u5E0C", "u671B", "u30A8", "u30EA", "u30A2", "u3092", "u6559",
        "u3048", "u3066", "u304F", "u3060", "u3055", "u3044", "u3002", "u30A8", "u30EA",
        "u30A2", "u307E", "u305F", "u306F", "u5C0F", "u4E2D", "u5B66", "u533A", "u3092",
        "u3054", "u8A18", "u5165", "u304F", "u3060", "u3055", "u3044", "u3002", "u25BC",
        "nl">>,
      <<"nl">>,
      <<"u25BC", "u3054", "u8077", "u5834", "u306E", "u6700", "u5BC4", "u308A", "u99C5",
        "u306F", "u3069", "u3061", "u3089", "u3067", "u3059", "u304B", "uFF1F", "u25BC",
        "nl">>,
      <<"nl">>,
      <<"u25BC", "u3054", "u5E0C", "u671B", "u306E", "u901A", "u52E4", "u65B9", "u6CD5",
        "u306F", "u4F55", "u3067", "u3057", "u3087", "u3046", "u304B", "uFF1F", "u25BC",
        "nl">>,
      <<"nl">>,
      <<"u25BC", "u3054", "u5B9F", "u5BB6", "u306F", "u3069", "u3061", "u3089", "u306B",
        "u3054", "u3056", "u3044", "u307E", "u3059", "u304B", "uFF1F", "u25BC", "nl">>,
      <<"nl">>,
      <<"u25BC", "u3054", "u5165", "u5C45", "u5E0C", "u671B", "u6642", "u671F", "u306F",
        "u3042", "u308A", "u307E", "u3059", "u304B", "uFF1F", "u25BC", "nl">>,
      <<"nl">>,
      <<"u25BC", "u4ECA", "u307E", "u3067", "u30B9", "u30BF", "u30A4", "u30EB", "u30CF",
        "u30A6", "u30B9", "u306E", "u5C55", "u793A", "u5834", "u306B", "u3054", "u6765",
        "u5834", "u3055", "u308C", "u305F", "u4E8B", "u304C", "u3042", "u308A", "u307E",
        "u3059", "u304B", "uFF1F", "u25BC", "nl">>,
      <<"nl">>,
      <<"u25BC", "u65B0", "u3057", "u3044", "u304A", "u4F4F", "u307E", "u3044", "u3092",
        "u3054", "u691C", "u8A0E", "u3055", "u308C", "u308B", "u7406", "u7531", "u306F",
        "u4F55", "u3067", "u3059", "u304B", "uFF1F", "u25BC", "nl">>,
      <<"nl">>,
      <<"u25BC", "u305D", "u306E", "u4ED6", "u306E", "u3054", "u691C", "u8A0E", "u7406",
        "u7531", "u25BC", "nl">>,
      <<"nl">>,
      <<"u25BC", "u4ECA", "u5F8C", "u306E", "u30B9", "u30B1", "u30B8", "u30E5", "u30FC",
        "u30EB", "u306F", "u3069", "u306E", "u69D8", "u306A", "u30A4", "u30E1", "u30FC",
        "u30B8", "u3067", "u3059", "u304B", "uFF1F", "u25BC", "nl">>,
      <<"nl">>,
      <<"u25BC", "u73FE", "u5728", "u306E", "u304A", "u4F4F", "u307E", "u3044", "u306F",
        "u3069", "u306E", "u30BF", "u30A4", "u30D7", "u3067", "u3059", "u304B", "uFF1F",
        "u25BC", "nl">>,
      <<"nl">>,
      <<"u25BC", "u304A", "u5BB6", "u306E", "u5E83", "u3055", "u306F", "u3069", "u306E",
        "u3050", "u3089", "u3044", "u3067", "u304A", "u8003", "u3048", "u3067", "u3059",
        "u304B", "uFF1F", "u25BC", "nl">>,
      <<"u5EFA", "u7269", "uFF1A", "u3000", "u571F", "u5730", "uFF1A", "u3000", "u9593",
        "u53D6", "u308A", "uFF1A", "nl">>,
      <<"nl">>,
      <<"u25BC", "u3054", "u5165", "u5C45", "u4E88", "u5B9A", "u306E", "u65B9", "u25BC",
        "nl">>,
      <<"nl">>,
      <<"u25BC", "u571F", "u5730", "u3084", "u8AF8", "u8CBB", "u7528", "u3092", "u542B",
        "u3080", "u7DCF", "u4E88", "u7B97", "u306F", "u3044", "u304F", "u3089", "u3067",
        "u3059", "u304B", "uFF1F", "u25BC", "nl">>,
      <<"nl">>,
      <<"u25BC", "u3054", "u5E0C", "u671B", "u306E", "u8FD4", "u6E08", "u984D", "u3092",
        "u6559", "u3048", "u3066", "u9802", "u3051", "u307E", "u3059", "u304B", "uFF1F",
        "u25BC", "nl">>,
      <<"nl">>,
      <<"u25BC", "u5E74", "u5EA6", "u306E", "u3054", "u5E74", "u53CE", "u3092", "u6559",
        "u3048", "u3066", "u9802", "u3051", "u307E", "u3059", "u304B", "uFF1F", "u25BC",
        "nl">>,
      <<"nl">>,
      <<"u25BC", "u52E4", "u7D9A", "u5E74", "u6570", "u3092", "u6559", "u3048", "u3066",
        "u9802", "u3051", "u307E", "u3059", "u304B", "uFF1F", "u25BC", "nl">>,
      <<"nl">>,
      <<"u25BC", "u305D", "u306E", "u4ED6", "u3001", "u3054", "u5E74", "u53CE", "u304C",
        "u3042", "u308B", "u65B9", "u306F", "u3044", "u3089", "u3063", "u3057", "u3083",
        "u3044", "u307E", "u3059", "u304B", "uFF1F", "u25BC", "nl">>,
      <<"nl">>,
      <<"u25BC", "u982D", "u91D1", "u306E", "u3054", "u4E88", "u7B97", "u306F", "u304A",
        "u6C7A", "u307E", "u308A", "u3067", "u3059", "u304B", "u25BC", "nl">>,
      <<"nl">>,
      <<"u25BC", "u305D", "u306E", "u4ED6", "u30ED", "u30FC", "u30F3", "u306F", "u3054",
        "u3056", "u3044", "u307E", "u3059", "u304B", "uFF1F", "u25BC", "nl">>,
      <<"nl">>,
      <<"u25BC", "S", "T", "Y", "L", "E", " ", "H", "O", "U", "S", "E", "u306B", "u671F",
        "u5F85", "u3059", "u308B", "u3053", "u3068", "u306F", "u4F55", "u3067", "u3059",
        "u304B", "uFF1F", "u25BC", "nl">>,
      <<"nl">>,
      <<"u25BC", "u3054", "u8CEA", "u554F", "u30FB", "u3054", "u76F8", "u8AC7", "u306A",
        "u3069", "u3001", "u5148", "u306B", "u4F1D", "u3048", "u3066", "u304A", "u304D",
        "u305F", "u3044", "u3053", "u3068", "u306F", "u3054", "u3056", "u3044", "u307E",
        "u3059", "u304B", "uFF1F", "u25BC", "nl">>,
      Run("=", 40)
    >>)

(***************************************************************************)
(* Mails for parseEventRegistration: the sample mail, mails with a         *)
(* customer section laid out as in the sample (header between two          *)
(* banners) or with the lines directly under the header, and bodies that   *)
(* are no string.                                                          *)
(***************************************************************************)
Line(label, value) == label \o <<" ", ":", " ">> \o value \o <<NL>>
Banner == Run("=", BannerMin) \o <<NL>>
SectionText(framed, header, lines) ==
    Banner \o header \o <<NL>> \o (IF framed THEN Banner ELSE <<>>) \o lines
MailNames == {<<>>, <<"x">>}
MailEmails == {<<>>, <<"a", "@", "b", ".", "c">>, <<"a", "@", "b">>}
MailAges == {<<>>, <<"2", "3", "u6B73">>, <<"0">>}
MailBodies ==
    {SectionText(framed, SEC_EVENT, Line(LBL_EVENT_NAME, event))
       \o SectionText(framed, SEC_CUSTOMER,
                      Line(LBL_NAME, name) \o Line(LBL_EMAIL, email) \o Line(LBL_AGE, age))
       \o Banner :
        framed \in BOOLEAN, event \in MailNames, name \in MailNames,
        email \in MailEmails, age \in MailAges}
RECEIVED == <<"t">>
Mail(body) ==
    [type |-> "object", subject |-> JsUndefined, body |-> body,
     received_time |-> JsString(RECEIVED)]
MaxClock == 2
ParseInputs ==
    {JsNull}
      \cup {Mail(b) : b \in {JsUndefined, JsNumber(5), JsObject, JsString(testEmailContent)}}
      \cup {Mail(JsString(b)) : b \in MailBodies}

InitParse ==
    /\ ServerIdle
    /\ \E emailData \in ParseInputs, now \in 1..MaxClock : call = Pending(<<emailData, now>>)
CallParseEventRegistration ==
    /\ call.fn = "pending"
    /\ call' = Returned("parseEventRegistration",
                        parseEventRegistration(call.args[1], call.args[2]))
    /\ UNCHANGED server
SpecParse == InitParse /\ [][CallParseEventRegistration]_vars

(***************************************************************************)
(* C2                                                                      *)
(***************************************************************************)
\* C2: for the sample mail, parseEventRegistration returns a record with
\* desiredDate "2025-09-08", customerAge 23, customerPhone "09092734235" and
\* a non-empty eventName, and isValid = TRUE.
C2_SampleMail ==
    /\ call.fn = "parseEventRegistration"
    /\ call.args[1] = Mail(JsString(testEmailContent))
    => /\ ~call.result.threw
       /\ call.result.value.isValid
       /\ LET data == call.result.value.data[1]
          IN  /\ data.desiredDate = <<"2", "0", "2", "5", "-", "0", "9", "-", "0", "8">>
              /\ data.customerAge = Num(23)
              /\ data.customerPhone =
                     <<"0", "9", "0", "9", "2", "7", "3", "4", "2", "3", "5">>
              /\ data.eventName # <<>>

(***************************************************************************)
(* C9                                                                      *)
(***************************************************************************)
\* C9: parseEventRegistration never lets an exception escape: the call
\* returns for every input, and when the parsing threw (a null emailData, a
\* body that is no string) it returns isValid = FALSE, data = null and an
\* error list with exactly one element.
C9_NoEscape ==
    call.fn = "parseEventRegistration" =>
        /\ ~call.result.threw
        /\ ParseBody(call.args[1], call.args[2]).threw =>
               /\ ~call.result.value.isValid
               /\ call.result.value.data = NullValue
               /\ Len(call.result.value.errors) = 1

\* C9 witness: the call on a mail whose body is a number has returned the
\* structured failure.
C9_Witness ==
    /\ call.fn = "parseEventRegistration"
    /\ call.args[1] = Mail(JsNumber(5))
    /\ ~call.result.threw
    /\ call.result.value.errors = <<"content.match is not a function">>

(***************************************************************************)
(* parseEventRegistration invoked twice on the same emailData, the clock   *)
(* read by each invocation being drawn independently.  The parser object   *)
(* has no field and every RegExp is created by the call that uses it, so   *)
(* the second invocation starts from what the first one started from.      *)
(***************************************************************************)
InitTwice ==
    /\ ServerIdle
    /\ \E emailData \in ParseInputs, first \in 1..MaxClock, second \in 1..MaxClock :
           call = Pending(<<emailData, first, second>>)
CallFirst ==
    /\ call.fn = "pending"
    /\ call' = [fn |-> "first", args |-> call.args,
                result |-> <<parseEventRegistration(call.args[1], call.args[2])>>]
    /\ UNCHANGED server
CallSecond ==
    /\ call.fn = "first"
    /\ call' = [fn |-> "second", args |-> call.args,
                result |-> Append(call.result,
                                  parseEventRegistration(call.args[1], call.args[3]))]
    /\ UNCHANGED server
NextTwice == CallFirst \/ CallSecond
SpecTwice == InitTwice /\ [][NextTwice]_vars

(***************************************************************************)
(* C13                                                                     *)
(***************************************************************************)
\* a parse result with createdAt left out of its record
WithoutCreatedAt(parsed) ==
    IF parsed.data = NullValue THEN parsed
    ELSE [parsed EXCEPT !.data = <<[@[1] EXCEPT !.createdAt = 0]>>]

SUBJECT_TAG == <<"[", "S", "T", "Y", "L", "E", " ", "H", "O", "U", "S", "E", "]">>
SUBJECT_PHRASE ==
    <<"u30A4", "u30D9", "u30F3", "u30C8", "u306E", "u53C2", "u52A0", "u304A", "u7533",
      "u3057", "u8FBC", "u307F", "u304C", "u3042", "u308A", "u307E", "u3057", "u305F">>
MOCK_SUBJECT == SUBJECT_TAG \o <<" ">> \o SUBJECT_PHRASE \o <<"u3002">>

\* String.prototype.includes
Includes(text, s) == s = <<>> \/ Occurs(s, text)

isEventRegistrationEmail(emailData) ==
    LET subject == IF Truthy(emailData.subject) THEN emailData.subject.str ELSE <<>>
    IN  Includes(subject, SUBJECT_TAG) /\ Includes(subject, SUBJECT_PHRASE)

\* the hex digest of timestamp + nonce + secret + body
EXPECTED_SIGNATURE == <<"d", "i", "g", "e", "s", "t">>

verifySignature(req) ==
    IF nodeEnv = "development" THEN TRUE
    ELSE IF ~Truthy(req.signature) \/ ~Truthy(req.timestamp) \/ ~Truthy(req.nonce) THEN FALSE
    ELSE req.signature.str = EXPECTED_SIGNATURE

\* res.status(status).json(...) and the return that follows it: the response
\* is sent and the handler's locals are gone
Respond(h, status, kind) ==
    [h EXCEPT !.pc = "done", !.parsedData = <<>>, !.createRecordArg = <<>>, !.token = 0,
              !.tokenCall = <<>>,
              !.responses = Append(@, [status |-> status, body |-> kind])]

\* the cache check with Date.now() < this.tokenExpiry left out
TokenCached_NoExpiry == accessToken # 0 /\ tokenExpiry # 0

\* getAccessToken up to its return or its await: the cached token when there
\* is one and Date.now() < tokenExpiry, else the token request goes out
TokenCached == accessToken # 0 /\ tokenExpiry # 0 /\ clock < tokenExpiry

\* createRecord(data) invoked by handler h: up to the first network await
CreateRecord(h, data) ==
    IF TokenCached
    THEN [h EXCEPT !.createRecordArg = <<data>>, !.token = accessToken, !.pc = "awaitRecord",
                   !.tokenCall = <<"cached">>,
                   !.calls = Append(@, <<"createRecord", TRUE>>)]
    ELSE [h EXCEPT !.createRecordArg = <<data>>, !.pc = "awaitToken",
                   !.tokenCall = <<"request">>,
                   !.calls = Append(@, <<"createRecord", TRUE>>)]

\* Requests.  The mails are one that parses to a valid record and one that
\* does not.
ValidMail ==
    SectionText(FALSE, SEC_CUSTOMER,
                Line(LBL_NAME, <<"x">>) \o Line(LBL_EMAIL, <<"a", "@", "b", ".", "c">>))
InvalidMail ==
    SectionText(TRUE, SEC_CUSTOMER,
                Line(LBL_NAME, <<"x">>) \o Line(LBL_EMAIL, <<"a", "@", "b", ".", "c">>))
WebhookBodies ==
    {[type |-> "object", subject |-> subject, body |-> JsString(mail),
      received_time |-> JsString(RECEIVED)] :
        subject \in {JsUndefined, JsString(MOCK_SUBJECT), JsString(SUBJECT_TAG)},
        mail \in {ValidMail, InvalidMail}}
WebhookRequests ==
    [signature : {JsUndefined, JsString(EXPECTED_SIGNATURE), JsString(<<"x">>)},
     timestamp : {JsString(<<"1">>)},
     nonce : {JsString(<<"n">>)},
     body : WebhookBodies]
TestRequests ==
    [content : {JsUndefined, JsNumber(5), JsString(ValidMail), JsString(InvalidMail)}]

\* const mockEmailData = { subject, body: emailContent, received_time }
MockEmailData(req, now) ==
    [type |-> "object", subject |-> JsString(MOCK_SUBJECT), body |-> req.content,
     received_time |-> JsNumber(now)]

\* emailParser.parseEventRegistration(...) as the handlers call it.  The
\* parser keeps no state, so its results on the requests above are computed
\* once, for every value of the clock.
MaxTicks == 2
Clocks == {k * TickMs : k \in 1..(MaxTicks + 1)}
ParserCalls ==
    (WebhookBodies \X Clocks) \cup {<<MockEmailData(req, now), now>> : req \in TestRequests, now \in Clocks}
ParserResults == {<<c, parseEventRegistration(c[1], c[2]).value>> : c \in ParserCalls}
ParserResult(emailData, now) ==
    (CHOOSE r \in ParserResults : r[1] = <<emailData, now>>)[2]

\* h after a call of fn that returned value: h.calls is the log of the
\* calls the handler has made
Called(h, fn, value) == [h EXCEPT !.calls = Append(@, <<fn, value>>)]

\* the webhook handler from the parser on, with the isValid check left out
ParseAndSave_NoValidCheck(h, req) ==
    LET parsedData == ParserResult(req.body, clock)
    IN  CreateRecord([Called(h, "parseEventRegistration", parsedData.isValid)
                         EXCEPT !.parsedData = <<parsedData>>],
                     IF parsedData.data = NullValue THEN NullValue ELSE parsedData.data[1])

\* the webhook handler from the parser on (app.js lines 58-68)
ParseAndSave(h, req) ==
    LET parsedData == ParserResult(req.body, clock)
        parsed == [Called(h, "parseEventRegistration", parsedData.isValid)
                      EXCEPT !.parsedData = <<parsedData>>]
    IN  IF ~parsedData.isValid THEN Respond(parsed, 400, "Invalid email format")
        ELSE CreateRecord(parsed, parsedData.data[1])

\* the webhook handler with the subject check left out
WebhookHandler_NoSubjectCheck(h, req) ==
    LET isValid == verifySignature(req)
        verified == Called(h, "verifySignature", isValid)
    IN  IF ~isValid THEN Respond(verified, 401, "Invalid signature")
        ELSE ParseAndSave(verified, req)

\* app.post('/webhook/lark-mail'): the handler up to its response or first await
WebhookHandler(h, req) ==
    LET isValid == verifySignature(req)
        verified == Called(h, "verifySignature", isValid)
        isRegistration == isEventRegistrationEmail(req.body)
        checked == Called(verified, "isEventRegistrationEmail", isRegistration)
    IN  IF ~isValid THEN Respond(verified, 401, "Invalid signature")
        ELSE IF ~isRegistration THEN Respond(checked, 200, "skipped")
        ELSE ParseAndSave(checked, req)

\* app.post('/test/parse-email'): the handler up to its response or first await
TestHandler(h, req) ==
    LET mockEmailData == MockEmailData(req, clock)
        parsedData == ParserResult(mockEmailData, clock)
        parsed == [Called(h, "parseEventRegistration", parsedData.isValid)
                      EXCEPT !.parsedData = <<parsedData>>]
    IN  IF parsedData.isValid THEN CreateRecord(parsed, parsedData.data[1])
        ELSE Respond(parsed, 400, "errors")

WebhookLarkMail(i) ==
    /\ handler[i].pc = "idle"
    /\ \E req \in WebhookRequests :
           handler' = [handler EXCEPT ![i] = WebhookHandler([@ EXCEPT !.route = "webhook"], req)]
    /\ UNCHANGED <<call, nodeEnv, accessToken, tokenExpiry, issued, clock>>

TestParseEmail(i) ==
    /\ handler[i].pc = "idle"
    /\ \E req \in TestRequests :
           handler' = [handler EXCEPT ![i] = TestHandler([@ EXCEPT !.route = "test"], req)]
    /\ UNCHANGED <<call, nodeEnv, accessToken, tokenExpiry, issued, clock>>

\* createRecord threw: the webhook's catch answers 500, the test route's
\* inner catch answers success with recordId null
CreateRecordFailed(h) ==
    IF h.route = "webhook" THEN Respond(h, 500, "Internal server error")
    ELSE Respond(h, 200, "parsed, not saved")

\* the token request of getAccessToken comes back: the token and its expiry
\* are stored and createRecord sends the record, or the request failed and
\* getAccessToken throws 'Authentication failed'
TokenResponse(i) ==
    /\ handler[i].pc = "awaitToken"
    /\ \/ \E expire \in {ExpiryBufferSec, 2 * ExpiryBufferSec} :
            /\ issued' = issued + 1
            /\ accessToken' = issued + 1
            /\ tokenExpiry' = clock + (expire - ExpiryBufferSec) * MsPerSec
            /\ handler' = [handler EXCEPT ![i].token = issued + 1, ![i].pc = "awaitRecord",
                                          ![i].tokenCall = <<"stored", expire>>]
       \/ /\ handler' = [handler EXCEPT ![i] =
                              CreateRecordFailed(Called(@, "throw", "Authentication failed"))]
          /\ UNCHANGED <<accessToken, tokenExpiry, issued>>
    /\ UNCHANGED <<call, nodeEnv, clock>>

\* the record request of createRecord comes back
RecordResponse(i) ==
    /\ handler[i].pc = "awaitRecord"
    /\ \/ handler' = [handler EXCEPT ![i] =
                         IF @.route = "webhook" THEN Respond(@, 200, "success")
                         ELSE Respond(@, 200, "saved")]
       \/ handler' = [handler EXCEPT ![i] =
                           CreateRecordFailed(Called(@, "throw", "Request failed"))]
    /\ UNCHANGED <<call, nodeEnv, accessToken, tokenExpiry, issued, clock>>

Tick ==
    /\ clock < (MaxTicks + 1) * TickMs
    /\ clock' = clock + TickMs
    /\ UNCHANGED <<call, nodeEnv, handler, accessToken, tokenExpiry, issued>>

Init == call = Idle /\ ServerInit

Next ==
    \/ \E i \in Requests : WebhookLarkMail(i)
    \/ \E i \in Requests : TestParseEmail(i)
    \/ \E i \in Requests : TokenResponse(i)
    \/ \E i \in Requests : RecordResponse(i)
    \/ Tick

Spec == Init /\ [][Next]_vars

(***************************************************************************)
(* C1                                                                      *)
(***************************************************************************)
\* C1: on both routes, createRecord is invoked only with the data of a
\* parseEventRegistration result whose isValid is TRUE: a handler that has
\* invoked createRecord holds a parse result with isValid = TRUE, and the
\* argument is that result's data.
C1_OnlyValidPersisted ==
    \A i \in Requests :
        handler[i].createRecordArg # <<>> =>
            /\ handler[i].parsedData # <<>>
            /\ handler[i].parsedData[1].isValid
            /\ handler[i].createRecordArg = handler[i].parsedData[1].data

\* C1 witness: a webhook request was answered 400 for an invalid parse
\* result, and a request of the test route has invoked createRecord and is
\* waiting for it.
C1_Witness ==
    \E i, j \in Requests :
        /\ handler[i].route = "webhook" /\ handler[i].pc = "done"
        /\ handler[i].responses = <<[status |-> 400, body |-> "Invalid email format"]>>
        /\ handler[j].route = "test" /\ handler[j].pc # "done"
        /\ handler[j].createRecordArg # <<>>
        /\ handler[j].parsedData[1].isValid

(***************************************************************************)
(* C16                                                                     *)
(***************************************************************************)
CallsOf(h, fn) == {k \in 1..Len(h.calls) : h.calls[k][1] = fn}

CacheHit(i) == handler[i].tokenCall # <<"cached">> /\ handler'[i].tokenCall = <<"cached">>
\* handler i's token request came back with a token in this step
TokenStored(i) ==
    /\ handler[i].tokenCall = <<"request">>
    /\ handler'[i].tokenCall # <<>> /\ handler'[i].tokenCall[1] = "stored"
\* handler i's token request failed in this step
TokenFailed(i) == handler[i].pc = "awaitToken" /\ handler'[i].pc = "done"

C17_Step ==
    /\ \A i \in Requests :
        /\ CacheHit(i) =>
               /\ accessToken # 0 /\ handler'[i].token = accessToken
               /\ clock < tokenExpiry
               /\ handler'[i].pc = "awaitRecord"
        /\ TokenStored(i) =>
               /\ accessToken' = handler'[i].token
               /\ tokenExpiry' = clock + (handler'[i].tokenCall[2] - 60) * 1000
        /\ TokenFailed(i) =>
               /\ handler'[i].calls[Len(handler'[i].calls)] = <<"throw", "Authentication failed">>
               /\ accessToken' = accessToken /\ tokenExpiry' = tokenExpiry
    /\ (accessToken' # accessToken \/ tokenExpiry' # tokenExpiry) =>
           \E i \in Requests : TokenStored(i)

\* C17: in every step of every interleaving of the requests, a token is
\* taken from the cache, with no token request, only when the clock is
\* strictly before tokenExpiry; tokenExpiry is the time the token was
\* stored plus (expire - 60) seconds and changes only when a token is
\* stored; a failed token request throws 'Authentication failed' and leaves
\* accessToken and tokenExpiry as they were.
C17_TokenCache == [][C17_Step]_vars

\* C17 witness: a request holds a token it took from the cache while the
\* request that stored the token is still waiting, later than the token was
\* stored and before its expiry.
C17_Witness ==
    \E i, j \in Requests :
        /\ handler[i].tokenCall = <<"cached">> /\ handler[i].token = accessToken
        /\ handler[j].tokenCall # <<>> /\ handler[j].tokenCall[1] = "stored"
        /\ handler[j].token = accessToken
        /\ clock < tokenExpiry
        /\ clock > TickMs
====
